---- MODULE Spec2Model ----
(***************************************************************************)
(* The fertilizer recommendation dashboard: frontend/app.py (one render of *)
(* the Streamlit script, top to bottom) and frontend/utils.py (the         *)
(* recommendation generator).                                              *)
(*                                                                         *)
(* Numbers.  predicted_value, lower_ci and upper_ci are floats in the      *)
(* code.  Here a value is an integer count of 1/Scale units, so 70.01 is   *)
(* 70010 and the thresholds 70, 55 and 40 are 70000, 55000 and 40000.      *)
(* The sample values have no digit 5 in the last place, so the two-decimal *)
(* rounding of the format specification never meets a tie, whose outcome   *)
(* for a binary float depends on the float's exact expansion.              *)
(*                                                                         *)
(* Text.  An advisory is a TLA+ string holding the characters of the       *)
(* Python string, line breaks and indentation included.                    *)
(***************************************************************************)
EXTENDS Integers, Sequences, FiniteSets, TLC

VARIABLES
  pc,               \* position of the script (app.py) or of the caller of the generator
  dataset,          \* what is found at data_path (environment, fixed for a render)
  data,             \* app.py 99: the value load_data returned
  displayed,        \* the elements the render has put on the page, in order
  getCount,         \* number of requests.get calls issued in this render
  response,         \* the forecast service's answer to the pending GET
  forecast_data,    \* app.py 187: the value get_forecast returned
  forecast_df,      \* app.py 193-196 / utils.py 3: the forecast rows
  recommendations,  \* utils.py 13, 71-73 / app.py 264: the returned mapping
  observed          \* an entry of an earlier call's result, kept by the caller

vars ==
  <<pc, dataset, data, displayed, getCount, response, forecast_data,
    forecast_df, recommendations, observed>>

----------------------------------------------------------------------------
(* Bounds and sample inputs                                                *)

\* Values are counted in 1/Scale units.
Scale ==
  1000

\* Longest input handed to the generator on its own.
MaxRows ==
  2

\* app.py 196: range(6), the number of period labels the dashboard assigns.
NumMonths ==
  6

None ==
  "None"

\* Sample predicted values: negative, zero, each threshold, just above each
\* threshold (one of them below the next printed hundredth), and far above.
PredictedValues ==
  {-5000, 0, 40000, 40004, 55000, 55010, 70000, 70010, 85000}

\* Period labels of free-standing inputs (two, so that labels can repeat).
Labels ==
  {"Month 1", "Month 2"}

\* Confidence bounds as offsets from the predicted value.
CIOffsets ==
  {<<-1000, 1000>>, <<-2500, 3000>>}

----------------------------------------------------------------------------
(* frontend/utils.py: the templates                                        *)

\* utils.py 62-69: the block appended to every recommendation.
SoilHealthNotes ==
  "\n"
  \o "        \n"
  \o "        *Additional Soil Health Recommendations:*\n"
  \o "        - Maintain proper soil pH (6.0-7.0) for optimal nutrient availability\n"
  \o "        - Ensure adequate soil moisture for nutrient uptake\n"
  \o "        - Consider micronutrient supplements if deficiency symptoms are present\n"
  \o "        - Practice sustainable soil management to improve long-term fertility\n"
  \o "        "

\* utils.py 21-22: the template up to the interpolated value.
HighHead ==
  "\n"
  \o "            *High Nitrogen Required: "

\* utils.py 22-29: the template after the interpolated value.
HighBody ==
  "*\n"
  \o "            \n"
  \o "            - Apply high-nitrogen fertilizers like Ammonium Nitrate or Urea\n"
  \o "            - Recommended application rate: 2.5-3.0 kg per acre\n"
  \o "            - Apply in split doses to prevent nitrogen runoff\n"
  \o "            - Monitor plants for signs of excess nitrogen (excessive vegetative growth)\n"
  \o "            - Consider soil testing before application\n"
  \o "            "

\* utils.py 31-32: the template up to the interpolated value.
ModerateHighHead ==
  "\n"
  \o "            *Moderate-High Nitrogen Required: "

\* utils.py 32-39: the template after the interpolated value.
ModerateHighBody ==
  "*\n"
  \o "            \n"
  \o "            - Apply balanced NPK fertilizer with higher N content (e.g., 20-10-10)\n"
  \o "            - Recommended application rate: 2.0-2.5 kg per acre\n"
  \o "            - Focus on slow-release nitrogen sources\n"
  \o "            - For leafy crops, consider foliar nitrogen application\n"
  \o "            - Monitor soil moisture to maximize nitrogen uptake\n"
  \o "            "

\* utils.py 41-42: the template up to the interpolated value.
ModerateHead ==
  "\n"
  \o "            *Moderate Nitrogen Required: "

\* utils.py 42-49: the template after the interpolated value.
ModerateBody ==
  "*\n"
  \o "            \n"
  \o "            - Apply balanced NPK fertilizer (e.g., 15-15-15)\n"
  \o "            - Recommended application rate: 1.5-2.0 kg per acre\n"
  \o "            - Incorporate organic matter to improve nitrogen retention\n"
  \o "            - Consider crop rotation with legumes in future planning\n"
  \o "            - Monitor for signs of nitrogen deficiency (yellowing of older leaves)\n"
  \o "            "

\* utils.py 51-52: the template up to the interpolated value.
LowModerateHead ==
  "\n"
  \o "            *Low-Moderate Nitrogen Required: "

\* utils.py 52-59: the template after the interpolated value.
LowModerateBody ==
  "*\n"
  \o "            \n"
  \o "            - Apply light nitrogen fertilization (e.g., 10-10-10)\n"
  \o "            - Recommended application rate: 1.0-1.5 kg per acre\n"
  \o "            - Consider organic alternatives like compost or manure\n"
  \o "            - Implement cover crops to build soil nitrogen naturally\n"
  \o "            - Avoid over-application which may lead to nutrient runoff\n"
  \o "            "
----------------------------------------------------------------------------
(* frontend/utils.py: generate_recommendations                             *)

\* utils.py 22: the format specification .2f, for a value in 1/Scale units:
\* sign, integer part, point, two digits, rounded to the nearest hundredth
\* (to even on an exact tie).
Format2f(v) ==
  LET unit == Scale \div 100
      a    == IF v < 0 THEN -v ELSE v
      q    == a \div unit
      r    == a % unit
      h    == IF 2 * r > unit \/ (2 * r = unit /\ q % 2 = 1) THEN q + 1 ELSE q
      frac == h % 100
  IN  (IF v < 0 THEN "-" ELSE "")
      \o ToString(h \div 100) \o "."
      \o (IF frac < 10 THEN "0" ELSE "") \o ToString(frac)

\* Mutant of IsHigh: the comparison admits the threshold itself.
IsHigh_ge(n_value) ==
  n_value >= 70 * Scale

\* utils.py 20: if n_value > 70
IsHigh(n_value) ==
  n_value > 70 * Scale

\* Mutant of IsModerateHigh: the comparison admits the threshold itself.
IsModerateHigh_ge(n_value) ==
  n_value >= 55 * Scale

\* utils.py 30: elif n_value > 55
IsModerateHigh(n_value) ==
  n_value > 55 * Scale

\* Mutant of IsModerate: the comparison admits the threshold itself.
IsModerate_ge(n_value) ==
  n_value >= 40 * Scale

\* utils.py 40: elif n_value > 40
IsModerate(n_value) ==
  n_value > 40 * Scale

\* utils.py 20-59: the band template with the value interpolated.
BandText(n_value) ==
  IF IsHigh(n_value)
    THEN HighHead \o Format2f(n_value) \o HighBody
  ELSE IF IsModerateHigh(n_value)
    THEN ModerateHighHead \o Format2f(n_value) \o ModerateHighBody
  ELSE IF IsModerate(n_value)
    THEN ModerateHead \o Format2f(n_value) \o ModerateBody
  ELSE LowModerateHead \o Format2f(n_value) \o LowModerateBody

\* Mutant of AddSoilHealthNotes: = in place of +=, the band block is lost.
AddSoilHealthNotes_assign(recommendation) ==
  SoilHealthNotes

\* utils.py 61-69: recommendation += soil health notes
AddSoilHealthNotes(recommendation) ==
  recommendation \o SoilHealthNotes

\* Mutant of RowRecommendation: n_value is read from the wrong column.
RowRecommendation_upper(row) ==
  AddSoilHealthNotes(BandText(row.upper_ci))

\* utils.py 16-69: the recommendation computed for one row.  Only the row's
\* predicted_value is read (line 17); line 16 reads its date for the key.
RowRecommendation(row) ==
  AddSoilHealthNotes(BandText(row.predicted_value))

\* Mutant of DictSet: every row adds an entry, as a list of pairs would.
DictSet_append(d, k, t) ==
  Append(d, [key |-> k, text |-> t])

\* A Python dict is an insertion-ordered mapping: here a sequence of
\* [key, text] records with pairwise distinct keys.
DictKeys(d) ==
  [i \in 1..Len(d) |-> d[i].key]

HasKey(d, k) ==
  \E i \in 1..Len(d) : d[i].key = k

DictGet(d, k) ==
  d[CHOOSE i \in 1..Len(d) : d[i].key = k].text

\* utils.py 71: recommendations[month] = recommendation.  A new key is added
\* at the end; a key already present keeps its place and takes the new text.
DictSet(d, k, t) ==
  IF HasKey(d, k)
    THEN [i \in 1..Len(d) |-> IF d[i].key = k THEN [key |-> k, text |-> t] ELSE d[i]]
    ELSE Append(d, [key |-> k, text |-> t])

\* utils.py 15-71: the loop over forecast_df.iterrows(), from row i on.
RECURSIVE IterRows(_, _, _)
IterRows(df, i, recs) ==
  IF i > Len(df)
    THEN recs
    ELSE IterRows(df, i + 1, DictSet(recs, df[i].date, RowRecommendation(df[i])))

\* utils.py 3-73: recommendations = {} (line 13), the loop, return (line 73).
generate_recommendations(df) ==
  IterRows(df, 1, <<>>)

----------------------------------------------------------------------------
(* Sample inputs of the generator on its own                               *)

\* One forecast row as utils.py reads it: row['date'], row['predicted_value'];
\* the confidence bounds are carried and never read.
MakeRow(label, v, off) ==
  [date |-> label, predicted_value |-> v, lower_ci |-> v + off[1], upper_ci |-> v + off[2]]

SeqsUpTo(S, n) ==
  UNION {[1..k -> S] : k \in 0..n}

\* app.py 196: f"Month {i+1}" for i in range(6), as the label of row i (from 1).
MonthLabel(i) ==
  "Month " \o ToString(i)

\* Predicted values the forecast service is taken to send.
ServiceValues ==
  {40000, 55000, 70000, 70010}

\* The rows of a forecast body: no date, the three numbers of each entry.
BodyRows(n) ==
  [1..n -> {[predicted_value |-> v, lower_ci |-> v - Scale, upper_ci |-> v + Scale] :
              v \in ServiceValues}]

\* app.py 193-196: DataFrame(forecast_results) with the date column assigned.
WithDates(rows) ==
  [i \in 1..Len(rows) |->
     [date |-> MonthLabel(i), predicted_value |-> rows[i].predicted_value,
      lower_ci |-> rows[i].lower_ci, upper_ci |-> rows[i].upper_ci]]

\* Free-standing inputs: any labels, any sample value, one pair of bounds.
FreeRows ==
  {MakeRow(l, v, <<-Scale, Scale>>) : l \in Labels, v \in PredictedValues}

\* Inputs of the generator: every frame of at most MaxRows free rows, and the
\* six-row frames the dashboard builds.
GenInputs ==
  SeqsUpTo(FreeRows, MaxRows) \cup {WithDates(b) : b \in BodyRows(NumMonths)}

\* Inputs that differ in everything but the predicted value: labels, bounds.
VariedValues ==
  {70000, 70010}

VariedRows ==
  {MakeRow(l, v, off) : l \in Labels, v \in VariedValues, off \in CIOffsets}

VariedInputs ==
  SeqsUpTo(VariedRows, MaxRows) \ {<<>>}

----------------------------------------------------------------------------
(* frontend/app.py: the environment of a render                            *)

\* app.py 155, 42-49, 176: the columns the script reads.
AllColumns ==
  {"Date", "N", "P", "K", "Temperature", "Humidity", "Wind_Speed",
   "Crop_Yield", "Soil_Quality", "Crop_Type"}

\* What load_data finds at data_path: no file, a file read_csv rejects, a
\* table lacking one column, or the full table.
DatasetKinds ==
  {"missing_file", "parse_error", "no_Date", "no_N", "no_Wind_Speed",
   "no_Crop_Type", "valid"}

Columns(ds) ==
  CASE ds = "no_Date"       -> AllColumns \ {"Date"}
    [] ds = "no_N"          -> AllColumns \ {"N"}
    [] ds = "no_Wind_Speed" -> AllColumns \ {"Wind_Speed"}
    [] ds = "no_Crop_Type"  -> AllColumns \ {"Crop_Type"}
    [] ds = "valid"         -> AllColumns
    [] OTHER                -> {}

\* app.py 32-33: read_csv succeeds and the Date column exists to be parsed.
LoadSucceeds(ds) ==
  /\ ds \notin {"missing_file", "parse_error"}
  /\ "Date" \in Columns(ds)

\* A response body.  shape: not_json (json() raises), empty_object ({}),
\* other_object (an object without the key forecast), forecast.
Body(shape, rows) ==
  [shape |-> shape, forecast |-> rows]

NoBody ==
  Body("None", <<>>)

ForecastBodies ==
  {Body("forecast", rows) : rows \in BodyRows(NumMonths - 1) \cup BodyRows(NumMonths)}

OkBodies ==
  {Body("not_json", <<>>), Body("empty_object", <<>>), Body("other_object", <<>>)}
    \cup ForecastBodies

ErrorBodies ==
  {Body("not_json", <<>>), Body("other_object", <<>>)}

Pending ==
  [kind |-> "pending", status_code |-> 0, body |-> NoBody]

\* What requests.get can come back with: an exception, or a response.
Responses ==
  {[kind |-> "transport_error", status_code |-> 0, body |-> NoBody]}
    \cup {[kind |-> "http", status_code |-> 200, body |-> b] : b \in OkBodies}
    \cup {[kind |-> "http", status_code |-> s, body |-> b] : s \in {404, 500}, b \in ErrorBodies}

\* An element put on the page.
Element(kind, label, body) ==
  [kind |-> kind, label |-> label, body |-> body]

Shows(kind, label) ==
  \E i \in 1..Len(displayed) : displayed[i].kind = kind /\ displayed[i].label = label

ShowsKind(kind) ==
  \E i \in 1..Len(displayed) : displayed[i].kind = kind

----------------------------------------------------------------------------
(* frontend/app.py: one render of the script                               *)

\* app.py 28-37, 99: data = load_data(data_path).
load_data ==
  /\ pc = "load_data"
  /\ IF LoadSucceeds(dataset)
       THEN /\ data' = dataset
            /\ displayed' = displayed
       ELSE /\ data' = None
            /\ displayed' = Append(displayed, Element("error", "Error loading data", ""))
  /\ pc' = "main"
  /\ UNCHANGED <<dataset, getCount, response, forecast_data, forecast_df,
                 recommendations, observed>>

\* Mutant of DataLoaded: the main content is rendered whatever load_data returned.
DataLoaded_always(d) ==
  TRUE

\* app.py 102: if data is not None
DataLoaded(d) ==
  d # None

\* app.py 279-280: the else branch of the main content.
NoData ==
  /\ pc = "main"
  /\ ~DataLoaded(data)
  /\ displayed' = Append(displayed, Element("error", "No data available", ""))
  /\ pc' = "done"
  /\ UNCHANGED <<dataset, data, getCount, response, forecast_data, forecast_df,
                 recommendations, observed>>

\* app.py 104-113: the header and the three metrics.  data['N'] raises KeyError
\* when the column is missing, after the first metric is shown.
Metrics ==
  /\ pc = "main"
  /\ DataLoaded(data)
  /\ IF {"Date", "N"} \subseteq Columns(data)
       THEN /\ displayed' = displayed \o
                 <<Element("metric", "Data Timespan", ""),
                   Element("metric", "Average Nitrogen (N)", ""),
                   Element("metric", "Data Points", "")>>
            /\ pc' = "tab1"
       ELSE /\ displayed' = IF "Date" \in Columns(data)
                              THEN Append(displayed, Element("metric", "Data Timespan", ""))
                              ELSE displayed
            /\ pc' = "exception"
  /\ UNCHANGED <<dataset, data, getCount, response, forecast_data, forecast_df,
                 recommendations, observed>>

\* app.py 40-52: get_monthly_stats aggregates these columns by month.
get_monthly_stats_ok(d) ==
  {"Date", "N", "P", "K", "Temperature", "Humidity", "Crop_Yield"} \subseteq Columns(d)

\* app.py 118-150: the Monthly Trends tab.
Tab1 ==
  /\ pc = "tab1"
  /\ IF get_monthly_stats_ok(data)
       THEN /\ displayed' = displayed \o
                 <<Element("chart", "Monthly Fertilizer Requirements", ""),
                   Element("chart", "Environmental Factors", "")>>
            /\ pc' = "tab2"
       ELSE /\ displayed' = displayed
            /\ pc' = "exception"
  /\ UNCHANGED <<dataset, data, getCount, response, forecast_data, forecast_df,
                 recommendations, observed>>

\* app.py 155: corr_cols
corr_cols ==
  {"N", "P", "K", "Temperature", "Humidity", "Wind_Speed", "Crop_Yield", "Soil_Quality"}

\* app.py 152-177: the Correlations tab: the heatmap over corr_cols (line 156
\* raises KeyError on a missing column), then the scatter coloured by Crop_Type.
Tab2 ==
  /\ pc = "tab2"
  /\ IF ~(corr_cols \subseteq Columns(data))
       THEN /\ displayed' = displayed
            /\ pc' = "exception"
       ELSE IF ~({"Crop_Type", "Date"} \subseteq Columns(data))
         THEN /\ displayed' = Append(displayed, Element("chart", "Correlation Between Variables", ""))
              /\ pc' = "exception"
         ELSE /\ displayed' = displayed \o
                   <<Element("chart", "Correlation Between Variables", ""),
                     Element("chart", "Relationship Between Variables", "")>>
              /\ pc' = "tab3"
  /\ UNCHANGED <<dataset, data, getCount, response, forecast_data, forecast_df,
                 recommendations, observed>>

\* app.py 179-181: the Raw Data tab.
Tab3 ==
  /\ pc = "tab3"
  /\ displayed' = Append(displayed, Element("table", "Raw Data", ""))
  /\ pc' = "tab4"
  /\ UNCHANGED <<dataset, data, getCount, response, forecast_data, forecast_df,
                 recommendations, observed>>

\* app.py 187, 57: get_forecast() is entered and requests.get is issued.
requests_get ==
  /\ pc = "tab4"
  /\ getCount' = getCount + 1
  /\ pc' = "waiting"
  /\ UNCHANGED <<dataset, data, displayed, response, forecast_data, forecast_df,
                 recommendations, observed>>

\* The forecast service answers the pending request, or the transport fails.
\* Nothing obliges it to.
ServiceAnswers(r) ==
  /\ pc = "waiting"
  /\ response = Pending
  /\ response' = r
  /\ UNCHANGED <<pc, dataset, data, displayed, getCount, forecast_data, forecast_df,
                 recommendations, observed>>

\* Mutant of GetReturns: the call gives up on its own (a timeout raises).
GetReturns_timeout(r) ==
  TRUE

\* app.py 57: requests.get(url) is called without a timeout: it returns or
\* raises only once the service has answered or the transport has failed.
GetReturns(r) ==
  r.kind # "pending"

\* Mutant of ForecastReceived: the status code is not looked at.
ForecastReceived_nostatus(r) ==
  r.kind = "http" /\ r.body.shape # "not_json"

\* app.py 58-59: status 200 and a body json() can parse.
ForecastReceived(r) ==
  r.kind = "http" /\ r.status_code = 200 /\ r.body.shape # "not_json"

\* app.py 55-65: the rest of get_forecast: the parsed body on status 200, else
\* an error message and None (a body json() rejects raises into the handler
\* of line 63).
get_forecast ==
  /\ pc = "waiting"
  /\ GetReturns(response)
  /\ IF ForecastReceived(response)
       THEN /\ forecast_data' = response.body
            /\ displayed' = displayed
       ELSE /\ forecast_data' = NoBody
            /\ displayed' = Append(displayed,
                 IF response.kind = "http" /\ response.status_code # 200
                   THEN Element("error", "Error fetching forecast", ToString(response.status_code))
                   ELSE Element("error", "Error connecting to API", ""))
  /\ pc' = "forecast"
  /\ UNCHANGED <<dataset, data, getCount, response, forecast_df, recommendations, observed>>

\* app.py 189: if forecast_data: None and the empty object are false.
Truthy(fd) ==
  fd.shape \notin {"None", "empty_object"}

\* app.py 190-196: forecast_data['forecast'] raises KeyError without the key;
\* assigning the six labels raises ValueError unless there are six rows.
BuildForecast ==
  /\ pc = "forecast"
  /\ Truthy(forecast_data)
  /\ IF forecast_data.shape = "forecast" /\ Len(forecast_data.forecast) = NumMonths
       THEN /\ forecast_df' = WithDates(forecast_data.forecast)
            /\ pc' = "plot"
       ELSE /\ forecast_df' = forecast_df
            /\ pc' = "exception"
  /\ UNCHANGED <<dataset, data, displayed, getCount, response, forecast_data,
                 recommendations, observed>>

\* app.py 199-256: the forecast chart and the two tables.
ShowForecast ==
  /\ pc = "plot"
  /\ IF get_monthly_stats_ok(data)
       THEN /\ displayed' = displayed \o
                 <<Element("chart", "Nitrogen (N) Forecast for Next 6 Months", ""),
                   Element("table", "Predicted Values", ""),
                   Element("table", "Confidence Intervals", "")>>
            /\ pc' = "recommend"
       ELSE /\ displayed' = displayed
            /\ pc' = "exception"
  /\ UNCHANGED <<dataset, data, getCount, response, forecast_data, forecast_df,
                 recommendations, observed>>

\* app.py 265-267: one expander per item of the mapping, in its order.
Expanders(recs) ==
  [i \in 1..Len(recs) |->
     Element("expander", "Recommendation for " \o recs[i].key, recs[i].text)]

\* app.py 259-267: the call of the generator and the display of its result.
Recommend ==
  /\ pc = "recommend"
  /\ recommendations' = [calls |-> recommendations.calls + 1,
                         result |-> generate_recommendations(forecast_df)]
  /\ displayed' = displayed \o Expanders(recommendations'.result)
  /\ pc' = "done"
  /\ UNCHANGED <<dataset, data, getCount, response, forecast_data, forecast_df, observed>>

\* app.py 268-277: the else branch: the error and the instructions.
FetchFailed ==
  /\ pc = "forecast"
  /\ ~Truthy(forecast_data)
  /\ displayed' = displayed \o
       <<Element("error", "Unable to get forecast data", ""),
         Element("info", "To start the API server", "uvicorn main:app")>>
  /\ pc' = "done"
  /\ UNCHANGED <<dataset, data, getCount, response, forecast_data, forecast_df,
                 recommendations, observed>>

NotCalled ==
  [calls |-> 0, result |-> <<>>]

Init ==
  /\ pc = "load_data"
  /\ dataset \in DatasetKinds
  /\ data = None
  /\ displayed = <<>>
  /\ getCount = 0
  /\ response = Pending
  /\ forecast_data = NoBody
  /\ forecast_df = <<>>
  /\ recommendations = NotCalled
  /\ observed = {}

Next ==
  \/ load_data
  \/ NoData
  \/ Metrics
  \/ Tab1
  \/ Tab2
  \/ Tab3
  \/ requests_get
  \/ \E r \in Responses : ServiceAnswers(r)
  \/ get_forecast
  \/ BuildForecast
  \/ ShowForecast
  \/ Recommend
  \/ FetchFailed

Spec ==
  Init /\ [][Next]_vars

----------------------------------------------------------------------------
(* The generator on its own                                                *)

\* A caller hands forecast_df to generate_recommendations and holds the
\* mapping it returns (as app.py 264 does).
Call ==
  /\ pc = "ready"
  /\ recommendations' = [calls |-> recommendations.calls + 1,
                         result |-> generate_recommendations(forecast_df)]
  /\ pc' = "returned"
  /\ UNCHANGED <<dataset, data, displayed, getCount, response, forecast_data,
                 forecast_df, observed>>

GenInit ==
  /\ pc = "ready"
  /\ forecast_df \in GenInputs
  /\ recommendations = NotCalled
  /\ observed = {}
  /\ dataset = "valid"
  /\ data = None
  /\ displayed = <<>>
  /\ getCount = 0
  /\ response = Pending
  /\ forecast_data = NoBody

GenNext ==
  Call

GenSpec ==
  GenInit /\ [][GenNext]_vars

\* Row i of df is the row whose text the mapping holds under its label: no
\* later row has the same label.
OwnsKey(df, i) ==
  \A j \in (i + 1)..Len(df) : df[j].date # df[i].date

\* The caller keeps one returned text with the row it came from, and calls
\* again with another input.
CallAgain(i, df) ==
  /\ pc = "returned"
  /\ i \in 1..Len(forecast_df)
  /\ OwnsKey(forecast_df, i)
  /\ observed' = {[predicted_value |-> forecast_df[i].predicted_value,
                   text |-> DictGet(recommendations.result, forecast_df[i].date)]}
  /\ forecast_df' = df
  /\ recommendations' = NotCalled
  /\ pc' = "ready"
  /\ UNCHANGED <<dataset, data, displayed, getCount, response, forecast_data>>

RepeatInit ==
  /\ pc = "ready"
  /\ forecast_df \in VariedInputs
  /\ recommendations = NotCalled
  /\ observed = {}
  /\ dataset = "valid"
  /\ data = None
  /\ displayed = <<>>
  /\ getCount = 0
  /\ response = Pending
  /\ forecast_data = NoBody

RepeatNext ==
  \/ Call
  \/ \E i \in 1..MaxRows, df \in VariedInputs : CallAgain(i, df)

RepeatSpec ==
  RepeatInit /\ [][RepeatNext]_vars

----------------------------------------------------------------------------
(* Properties                                                              *)

StartsWith(t, p) ==
  Len(t) >= Len(p) /\ SubSeq(t, 1, Len(p)) = p

EndsWith(t, p) ==
  Len(t) >= Len(p) /\ SubSeq(t, Len(t) - Len(p) + 1, Len(t)) = p

Contains(t, p) ==
  \E i \in 1..(Len(t) - Len(p) + 1) : SubSeq(t, i, i + Len(p) - 1) = p

Result ==
  recommendations.result

\* The rows whose text the returned mapping holds, each with that text.
Advisories ==
  {[v |-> forecast_df[i].predicted_value, row |-> forecast_df[i],
    text |-> DictGet(Result, forecast_df[i].date)] :
      i \in {j \in 1..Len(forecast_df) : OwnsKey(forecast_df, j)}}

Heads ==
  {HighHead, ModerateHighHead, ModerateHead, LowModerateHead}

HeadsOf(t) ==
  {h \in Heads : StartsWith(t, h)}

\* C1: every returned advisory opens with exactly one band template, chosen
\* by strict comparisons: above 70 High, above 55 up to 70 Moderate-High,
\* above 40 up to 55 Moderate, 40 and below (zero, negatives) Low-Moderate.
C1_BandByStrictComparison ==
  pc = "returned" =>
    \A a \in Advisories :
      HeadsOf(a.text) =
        {IF a.v > 70 * Scale THEN HighHead
         ELSE IF a.v > 55 * Scale THEN ModerateHighHead
         ELSE IF a.v > 40 * Scale THEN ModerateHead
         ELSE LowModerateHead}

\* C1 witness: one call classified 70.00 as Moderate-High and 70.01 as High.
C1_Witness ==
  /\ pc = "returned"
  /\ \E a, b \in Advisories :
       /\ a.v = 70 * Scale /\ StartsWith(a.text, ModerateHighHead)
       /\ b.v = 70 * Scale + 10 /\ StartsWith(b.text, HighHead)

Boundaries ==
  {70 * Scale, 55 * Scale, 40 * Scale}

\* C2 as stated: a value exactly on a boundary gets the higher of the two
\* bands meeting there (70 High, 55 Moderate-High, 40 Moderate).
C2_BoundaryToHigherBand ==
  pc = "returned" =>
    \A a \in Advisories :
      a.v \in Boundaries =>
        StartsWith(a.text,
          IF a.v = 70 * Scale THEN HighHead
          ELSE IF a.v = 55 * Scale THEN ModerateHighHead
          ELSE ModerateHead)

\* C2 amended: a value exactly on a boundary gets the lower of the two bands
\* meeting there (70 Moderate-High, 55 Moderate, 40 Low-Moderate).
C2_BoundaryToLowerBand ==
  pc = "returned" =>
    \A a \in Advisories :
      a.v \in Boundaries =>
        StartsWith(a.text,
          IF a.v = 70 * Scale THEN ModerateHighHead
          ELSE IF a.v = 55 * Scale THEN ModerateHead
          ELSE LowModerateHead)

\* C2 witness: a call returned advisories for the boundary values 55 and 40.
C2_Witness ==
  /\ pc = "returned"
  /\ \E a, b \in Advisories :
       /\ a.v = 55 * Scale /\ StartsWith(a.text, ModerateHead)
       /\ b.v = 40 * Scale /\ StartsWith(b.text, LowModerateHead)

LabelsOf(df) ==
  {df[i].date : i \in 1..Len(df)}

DistinctLabels(df) ==
  \A i, j \in 1..Len(df) : i # j => df[i].date # df[j].date

FirstIndex(df, k) ==
  CHOOSE i \in 1..Len(df) : df[i].date = k /\ \A j \in 1..(i - 1) : df[j].date # k

LastIndex(df, k) ==
  CHOOSE i \in 1..Len(df) : df[i].date = k /\ OwnsKey(df, i)

\* The text is a band template filled in with the value v.
DerivedFrom(t, v) ==
  \E h \in Heads : StartsWith(t, h \o Format2f(v) \o "*")

C7_TextFromValueAlone ==
  pc = "returned" =>
    /\ \A a, b \in Advisories : a.v = b.v => a.text = b.text
    /\ \A a \in Advisories, o \in observed :
         a.v = o.predicted_value => a.text = o.text

\* C7 witness: one call returned the same text for two rows of equal value
\* with different labels and bounds, the text an earlier call returned too.
C7_Witness ==
  /\ pc = "returned"
  /\ \E a, b \in Advisories, o \in observed :
       /\ a.v = b.v /\ a.v = o.predicted_value
       /\ a.row.date # b.row.date
       /\ a.row.lower_ci # b.row.lower_ci
       /\ a.row.upper_ci # b.row.upper_ci
       /\ a.text = b.text /\ a.text = o.text

BandBodies ==
  {HighBody, ModerateHighBody, ModerateBody, LowModerateBody}

\* C8: every returned advisory ends with the soil-health block, verbatim,
\* directly after the end of its band block.
C8_SoilBlockLast ==
  pc = "returned" =>
    \A a \in 1..Len(Result) :
      /\ EndsWith(Result[a].text, SoilHealthNotes)
      /\ \E body \in BandBodies : EndsWith(Result[a].text, body \o SoilHealthNotes)

\* C8 witness: one call returned advisories of all four bands, each ending
\* with the block.
C8_Witness ==
  /\ pc = "returned"
  /\ \A h \in Heads : \E a \in 1..Len(Result) :
       StartsWith(Result[a].text, h) /\ EndsWith(Result[a].text, SoilHealthNotes)

\* C10 as stated: the text contains "High Nitrogen" exactly when the value is
\* above 70, and "Moderate Nitrogen" exactly when it is above 40 and at most 55.
C10_LabelIdentifiesBand ==
  pc = "returned" =>
    \A a \in Advisories :
      /\ Contains(a.text, "High Nitrogen") <=> a.v > 70 * Scale
      /\ Contains(a.text, "Moderate Nitrogen") <=> (a.v > 40 * Scale /\ a.v <= 55 * Scale)

\* C10 amended: the text contains "High Nitrogen" exactly when the value is
\* above 55 (the High and the Moderate-High template both hold it) and
\* "Moderate Nitrogen" exactly when it is at most 55 (the Moderate and the
\* Low-Moderate template both hold it); with the opening asterisk the labels
\* identify the band: "*High Nitrogen" exactly above 70, "*Moderate Nitrogen"
\* exactly above 40 and at most 55.
C10_LabelWithAsterisk ==
  pc = "returned" =>
    \A a \in Advisories :
      /\ Contains(a.text, "High Nitrogen") <=> a.v > 55 * Scale
      /\ Contains(a.text, "Moderate Nitrogen") <=> a.v <= 55 * Scale
      /\ Contains(a.text, "*High Nitrogen") <=> a.v > 70 * Scale
      /\ Contains(a.text, "*Moderate Nitrogen") <=> (a.v > 40 * Scale /\ a.v <= 55 * Scale)

\* C10 witness: a Moderate-High advisory holding "High Nitrogen" and a
\* Low-Moderate one holding "Moderate Nitrogen" came back from one call.
C10_Witness ==
  /\ pc = "returned"
  /\ \E a, b \in Advisories :
       /\ a.v > 55 * Scale /\ a.v <= 70 * Scale /\ Contains(a.text, "High Nitrogen")
       /\ b.v <= 40 * Scale /\ Contains(b.text, "Moderate Nitrogen")

\* C4 as stated: no render ends in an unhandled exception.
C4_NothingFatal ==
  pc # "exception"

RequestFailed ==
  \/ response.kind = "transport_error"
  \/ response.kind = "http" /\ response.status_code # 200

\* C5: when the dataset loaded and the forecast request failed (transport
\* error or a status other than 200): one GET was issued, get_forecast
\* returns None with an error message, the render ends showing the failure
\* message and the instructions, the generator is not called and no
\* recommendation is shown.
C5_FetchFailure ==
  RequestFailed =>
    /\ data # None
    /\ getCount = 1
    /\ pc \in {"waiting", "forecast", "done"}
    /\ recommendations.calls = 0
    /\ ~ShowsKind("expander")
    /\ ~Shows("chart", "Nitrogen (N) Forecast for Next 6 Months")
    /\ pc \in {"forecast", "done"} =>
         /\ forecast_data = NoBody
         /\ \/ Shows("error", "Error connecting to API")
            \/ Shows("error", "Error fetching forecast")
    /\ pc = "done" =>
         /\ Shows("error", "Unable to get forecast data")
         /\ Shows("info", "To start the API server")

\* C5 witness: a render ended after a status 500 that carried a JSON body.
C5_Witness ==
  /\ pc = "done"
  /\ response.kind = "http" /\ response.status_code = 500
  /\ response.body.shape = "other_object"
  /\ Shows("error", "Error fetching forecast")
  /\ Shows("info", "To start the API server")
  /\ getCount = 1

\* C6: when load_data returned None (as it does for a missing file and for a
\* parse error) the load error is shown, then the no-data error, and nothing
\* else: no metric, chart or table, no GET, no call of the generator.
C6_LoadFailure ==
  /\ (pc # "load_data" /\ dataset \in {"missing_file", "parse_error"}) => data = None
  /\ (pc # "load_data" /\ data = None) =>
       /\ Shows("error", "Error loading data")
       /\ \A k \in {"metric", "chart", "table", "expander", "info"} : ~ShowsKind(k)
       /\ getCount = 0
       /\ response = Pending
       /\ recommendations.calls = 0
       /\ pc \in {"main", "done"}
       /\ pc = "done" => Shows("error", "No data available")

\* C6 witness: a render of an unparsable file ended with the two errors.
C6_Witness ==
  /\ pc = "done"
  /\ dataset = "parse_error"
  /\ data = None
  /\ Len(displayed) = 2
  /\ Shows("error", "No data available")

FetchAftermathShown ==
  \/ ShowsKind("expander")
  \/ Shows("chart", "Nitrogen (N) Forecast for Next 6 Months")
  \/ Shows("error", "Unable to get forecast data")
  \/ Shows("error", "Error connecting to API")
  \/ Shows("error", "Error fetching forecast")

\* C9: a render whose dataset loaded ends only after the request was answered
\* (a response or a transport error); while it is unanswered nothing that
\* follows the fetch is shown, and the render stays at the fetch.
C9_BlocksOnFetch ==
  /\ [](/\ (pc = "done" /\ data # None) => response # Pending
        /\ response = Pending => ~FetchAftermathShown
        /\ response = Pending => pc \notin {"forecast", "plot", "recommend"})
  /\ [][(pc = "waiting" /\ response = Pending) => pc' = "waiting"]_vars

\* C9 witness: the request is out and unanswered, the historical tabs shown.
C9_Witness ==
  /\ pc = "waiting"
  /\ response = Pending
  /\ getCount = 1
  /\ Shows("table", "Raw Data")

====
